---- MODULE Spec2Model ----
(***************************************************************************)
(* plog: a command-line work timer.  plog.py keeps its state in the file   *)
(* plog.staging (one line "start,end" per interval, end empty while the    *)
(* timer runs) and offers the commands start, stop, status, push, reset.   *)
(* Each command is one process run to completion; one action below is one  *)
(* such invocation.                                                        *)
(*                                                                         *)
(* Time is counted in whole ticks; a calendar day has DayLen ticks.  An    *)
(* invocation runs within one tick (all its reads of time.time() return    *)
(* the same value, now), and two invocations, being commands typed one     *)
(* after the other, are at least one tick apart.                           *)
(*                                                                         *)
(* A field of a line is the text between commas.  The text of a float is   *)
(* represented by the float it denotes (Python's str/float round-trip      *)
(* floats exactly); the other texts are the empty text, the text "None"    *)
(* and text that is no number.                                             *)
(***************************************************************************)
EXTENDS Integers, Sequences, FiniteSets, TLC

\* ---------------------------------------------------------------- bounds
MaxOps == 5        \* invocations in one run
MaxStep == 2       \* largest advance of the clock between two reads
DayLen == 3        \* ticks per calendar day
MaxT == 6          \* latest timestamp of a store drawn by InitRT
MaxInv == 3        \* invocations in one run of interleaved invocations

VARIABLES
    file,       \* plog.staging: [exists, lines]
    clock,      \* the time of the last invocation (its time.time())
    hist,       \* the commands invoked so far, oldest first
    before,     \* plog.staging as it was when the last command began
    cfg,        \* FALSE when the last command missed PLOG_API_URL or PLOG_API_TOKEN
    out,        \* what the last command echoed
    exc,        \* the exception the last command died of, or "none"
    response,   \* how requests.post ended in the last command, or "none"
    sent,       \* the attendances the last command posted
    report,     \* the per-timer lines the last status printed
    total,      \* the total the last status printed, or NoTotal
    msg,        \* the --message of the last command, "" when it took none
    procs       \* the invocations under way when two run at once

vars == <<file, clock, hist, before, cfg, out, exc, response, sent, report, total,
          msg, procs>>

\* ------------------------------------------------------------- the texts
None == -1
NoTotal == -1

Num(x) == [k |-> "num", v |-> x]
EmptyText == [k |-> "empty", v |-> 0]
NoneText == [k |-> "None", v |-> 0]
JunkText == [k |-> "junk", v |-> 0]

\* f"{x}" of a float or of None
FormatField(x) == IF x = None THEN NoneText ELSE Num(x)

NoFile == [exists |-> FALSE, lines |-> <<>>]

\* ------------------------------------------------------------ TimerStore
save_overwrite(f, start) ==
    [exists |-> TRUE, lines |-> << <<Num(start), EmptyText>> >>]

save_timer_state(f, start) ==
    [exists |-> TRUE, lines |-> Append(f.lines, <<Num(start), EmptyText>>)]

\* a line the list comprehension of load_timer_state accepts
Parsable(line) ==
    /\ Len(line) = 2
    /\ line[1].k = "num"
    /\ line[2].k \in {"num", "empty"}

\* the timers of the lines ls, all of them parsable
TimersOf(ls) ==
    [i \in 1..Len(ls) |->
        <<ls[i][1].v, IF ls[i][2].k = "empty" THEN None ELSE ls[i][2].v>>]

load_skip_malformed(f) ==
    [err |-> FALSE,
     timers |-> IF f.exists THEN TimersOf(SelectSeq(f.lines, Parsable)) ELSE <<>>]

load_timer_state(f) ==
    IF ~f.exists THEN [err |-> FALSE, timers |-> <<>>]
    ELSE IF \E i \in 1..Len(f.lines) : ~Parsable(f.lines[i])
         THEN [err |-> TRUE, timers |-> <<>>]
         ELSE [err |-> FALSE,
               timers |-> [i \in 1..Len(f.lines) |->
                   <<f.lines[i][1].v,
                     IF f.lines[i][2].k = "empty" THEN None ELSE f.lines[i][2].v>>]]

update_only_last(f, timer_data) ==
    [exists |-> TRUE,
     lines |-> << <<FormatField(timer_data[Len(timer_data)][1]),
                    FormatField(timer_data[Len(timer_data)][2])>> >>]

update_timer_state(f, timer_data) ==
    [exists |-> TRUE,
     lines |-> [i \in 1..Len(timer_data) |->
                   <<FormatField(timer_data[i][1]), FormatField(timer_data[i][2])>>]]

delete_keep(f) == f

delete_drop_last(f) ==
    IF f.lines = <<>> THEN NoFile
    ELSE [exists |-> TRUE, lines |-> SubSeq(f.lines, 1, Len(f.lines) - 1)]

delete_timer_state(f) == IF f.exists THEN NoFile ELSE f

\* ------------------------------------------------------------ the clock
Nows == (clock + 1)..(clock + MaxStep)

date(t) == t \div DayLen
strftime_time(t) == t % DayLen
strftime_datetime(t) == <<date(t), strftime_time(t)>>
CurrentlyRunning == <<-1, -1>>

\* ------------------------------------------------------- what is echoed
MsgAlreadyRunning == "Timer is already running."
MsgStarted == "New timer started."
MsgStopped == "Timer stopped."
MsgNotRunning == "No timer is currently running."
MsgNoTimer == "No timer started."
MsgTimers == "Timer i: ..."
MsgTotal == "Total time worked"
MsgLast == "Last timer: ..."
MsgDefineEnv == "Please define PLOG_API_URL and PLOG_API_TOKEN env variables and try again!"
MsgNoTimers == "No timers found to push."
MsgSending == "Sending the following data to Plog API:"
MsgResponse == "Response from Plog API:"
MsgFailed == "Failed to log work. Response from plog API:"
MsgPushed == "All timers pushed and reset."
MsgReset == "Timer has been reset."

Messages == {"", "worked"}
Responses == {"200", "500", "transport"}

\* the invocation that ran at time now ends: the file and what the user saw
Done(cmd, f, now, c, o, e, r, s, rep, tot) ==
    /\ file' = f
    /\ clock' = now
    /\ hist' = Append(hist, cmd)
    /\ before' = file
    /\ cfg' = c
    /\ out' = o
    /\ exc' = e
    /\ response' = r
    /\ sent' = s
    /\ report' = rep
    /\ total' = tot
    /\ procs' = procs

Raise(cmd, now, c, o, e) == Done(cmd, file, now, c, o, e, "none", <<>>, <<>>, NoTotal)

Echo(cmd, f, now, c, o) == Done(cmd, f, now, c, o, "none", "none", <<>>, <<>>, NoTotal)

\* ------------------------------------------------------ TimerStateMachine
start_running_first(timers) == timers # <<>> /\ timers[1][2] = None

start_running_never(timers) == FALSE

start_running(timers) == timers # <<>> /\ timers[Len(timers)][2] = None

start ==
    /\ Len(hist) < MaxOps
    /\ msg' = ""
    /\ \E now \in Nows :
       LET ld == load_timer_state(file) IN
       IF ld.err THEN Raise("start", now, TRUE, <<>>, "ValueError")
       ELSE IF start_running(ld.timers)
            THEN Echo("start", file, now, TRUE, <<MsgAlreadyRunning>>)
            ELSE LET timer_start == now IN
                 Echo("start", save_timer_state(file, timer_start), now, TRUE,
                      <<MsgStarted>>)

stop_running_any(timers) == timers # <<>>

stop_running(timers) == timers # <<>> /\ timers[Len(timers)][2] = None

close_last_at_start(timers, timer_end) ==
    [timers EXCEPT ![Len(timers)] = <<timers[Len(timers)][1], timers[Len(timers)][1]>>]

close_last_forgotten(timers, timer_end) == timers

close_last(timers, timer_end) ==
    [timers EXCEPT ![Len(timers)] = <<timers[Len(timers)][1], timer_end>>]

stop ==
    /\ Len(hist) < MaxOps
    /\ msg' = ""
    /\ \E now \in Nows :
       LET ld == load_timer_state(file) IN
       IF ld.err THEN Raise("stop", now, TRUE, <<>>, "ValueError")
       ELSE IF stop_running(ld.timers)
            THEN LET timer_end == now IN
                 Echo("stop", update_timer_state(file, close_last(ld.timers, timer_end)),
                      now, TRUE, <<MsgStopped>>)
            ELSE Echo("stop", file, now, TRUE, <<MsgNotRunning>>)

reset ==
    /\ Len(hist) < MaxOps
    /\ msg' = ""
    /\ \E now \in Nows :
       Echo("reset", delete_timer_state(file), now, TRUE, <<MsgReset>>)

\* ------------------------------------------------------------------ status
RECURSIVE SumDurations(_)
SumDurations(rep) ==
    IF rep = <<>> THEN 0
    ELSE rep[1].duration + SumDurations(Tail(rep))

status_empty(timers) == timers = <<>>

status_all_open_zero(timers, now) ==
    [i \in 1..Len(timers) |->
        [start_dt |-> strftime_datetime(timers[i][1]),
         end_dt |-> IF timers[i][2] = None THEN CurrentlyRunning
                    ELSE strftime_datetime(timers[i][2]),
         duration |-> IF timers[i][2] = None THEN 0 ELSE timers[i][2] - timers[i][1]]]

\* the loop of status --all
status_all(timers, now) ==
    [i \in 1..Len(timers) |->
        LET timer_start == timers[i][1]
            timer_end == IF timers[i][2] = None THEN now ELSE timers[i][2]
        IN [start_dt |-> strftime_datetime(timer_start),
            end_dt |-> IF timers[i][2] = None THEN CurrentlyRunning
                       ELSE strftime_datetime(timer_end),
            duration |-> timer_end - timer_start]]

\* the else branch of status: the last timer, "if timer_end" being false for
\* None and for 0.0
status_last(timers, now) ==
    LET timer_start == timers[Len(timers)][1]
        timer_end == timers[Len(timers)][2]
    IN IF timer_end # None /\ timer_end # 0
       THEN [start_dt |-> strftime_datetime(timer_start),
             end_dt |-> strftime_datetime(timer_end),
             duration |-> timer_end - timer_start]
       ELSE [start_dt |-> strftime_datetime(timer_start),
             end_dt |-> CurrentlyRunning,
             duration |-> now - timer_start]

status_rewrites ==
    /\ Len(hist) < MaxOps
    /\ msg' = ""
    /\ \E now \in Nows :
       LET ld == load_timer_state(file) IN
       IF ld.err THEN Raise("status", now, TRUE, <<>>, "ValueError")
       ELSE Done("status", update_timer_state(file, ld.timers), now, TRUE,
                 IF ld.timers = <<>> THEN <<MsgNoTimer>> ELSE <<MsgLast>>,
                 "none", "none", <<>>, <<>>, NoTotal)

status ==
    /\ Len(hist) < MaxOps
    /\ msg' = ""
    /\ \E all \in BOOLEAN, now \in Nows :
       LET ld == load_timer_state(file) IN
       IF ld.err THEN Raise("status", now, TRUE, <<>>, "ValueError")
       ELSE IF status_empty(ld.timers)
            THEN Echo("status", file, now, TRUE, <<MsgNoTimer>>)
            ELSE IF all
                 THEN LET rep == status_all(ld.timers, now) IN
                      Done("status", file, now, TRUE, <<MsgTimers, MsgTotal>>,
                           "none", "none", <<>>, rep, SumDurations(rep))
                 ELSE Done("status", file, now, TRUE, <<MsgLast>>,
                           "none", "none", <<>>, <<status_last(ld.timers, now)>>, NoTotal)

\* -------------------------------------------------------------------- push
push_empty_never(timers) == FALSE

push_empty(timers) == timers = <<>>

crosses_midnight_never(timer_start, timer_end) == FALSE

\* start_dt.date() != end_dt.date()
crosses_midnight(timer_start, timer_end) == date(timer_start) # date(timer_end)

\* a running timer is stopped now
EndOr(timer, now) == IF timer[2] = None THEN now ELSE timer[2]

\* whether the loop of push raises
push_raises(timers, now) ==
    \E i \in 1..Len(timers) : crosses_midnight(timers[i][1], EndOr(timers[i], now))

build_attendances_all_now(timers, message, now) ==
    [i \in 1..Len(timers) |->
        [comment |-> message,
         date |-> date(timers[i][1]),
         start_time |-> strftime_time(timers[i][1]),
         end_time |-> strftime_time(now)]]

build_attendances(timers, message, now) ==
    [i \in 1..Len(timers) |->
        [comment |-> message,
         date |-> date(timers[i][1]),
         start_time |-> strftime_time(timers[i][1]),
         end_time |-> strftime_time(EndOr(timers[i], now))]]

\* log_work_to_plog_api and what push does after it
log_work_and_clear(c, now, attendances, resp) ==
    IF resp = "transport"
    THEN Done("push", file, now, c, <<MsgSending>>, "ConnectionError", resp,
              attendances, <<>>, NoTotal)
    ELSE Done("push", delete_timer_state(file), now, c,
              <<MsgSending, IF resp = "200" THEN MsgResponse ELSE MsgFailed, MsgPushed>>,
              "none", resp, attendances, <<>>, NoTotal)

config_missing_url_only(url, token) == ~url

\* not PLOG_API_URL or not PLOG_API_TOKEN
config_missing(url, token) == ~url \/ ~token

push ==
    /\ Len(hist) < MaxOps
    /\ \E url \in BOOLEAN, token \in BOOLEAN, message \in Messages, now \in Nows :
       LET c == url /\ token IN
       /\ msg' = message
       /\ IF config_missing(url, token)
          THEN Echo("push", file, now, c, <<MsgDefineEnv>>)
          ELSE LET ld == load_timer_state(file) IN
               IF ld.err THEN Raise("push", now, c, <<>>, "ValueError")
               ELSE IF push_empty(ld.timers)
                    THEN Echo("push", file, now, c, <<MsgNoTimers>>)
                    ELSE IF push_raises(ld.timers, now)
                         THEN Raise("push", now, c, <<>>, "Exception")
                         ELSE \E resp \in Responses :
                                log_work_and_clear(c, now,
                                    build_attendances(ld.timers, message, now), resp)

\* ------------------------------------------------------- the specification
\* no invocation is under way
NoProcs ==
    [pc |-> [p \in 1..2 |-> "idle"],
     cmd |-> [p \in 1..2 |-> "none"],
     timers |-> [p \in 1..2 |-> <<>>],
     seen |-> [p \in 1..2 |-> NoFile],
     last |-> 0]

Init ==
    /\ file = NoFile
    /\ clock = 0
    /\ hist = <<>>
    /\ before = NoFile
    /\ cfg = TRUE
    /\ out = <<>>
    /\ exc = "none"
    /\ response = "none"
    /\ sent = <<>>
    /\ report = <<>>
    /\ total = NoTotal
    /\ msg = ""
    /\ procs = NoProcs

Next == start \/ stop \/ status \/ push \/ reset

Spec == Init /\ [][Next]_vars

\* --------------------------------------- overwrite(load()) on its own
\* the timestamps of S in increasing order
RECURSIVE Sorted(_)
Sorted(S) ==
    IF S = {} THEN <<>>
    ELSE LET m == CHOOSE x \in S : \A y \in S : x <= y
         IN <<m>> \o Sorted(S \ {m})

\* the store start and stop write when they are invoked at the times ts:
\* closed lines, and a last open line when ts has an odd length
RECURSIVE StoreOf(_)
StoreOf(ts) ==
    IF ts = <<>> THEN <<>>
    ELSE IF Len(ts) = 1 THEN << <<Num(ts[1]), EmptyText>> >>
    ELSE << <<Num(ts[1]), Num(ts[2])>> >> \o StoreOf(SubSeq(ts, 3, Len(ts)))

WellFormedStores ==
    {[exists |-> TRUE, lines |-> StoreOf(Sorted(S))] : S \in (SUBSET (1..MaxT)) \ {{}}}

InitRT ==
    /\ file \in WellFormedStores
    /\ clock = MaxT
    /\ hist = <<>>
    /\ before = file
    /\ cfg = TRUE
    /\ out = <<>>
    /\ exc = "none"
    /\ response = "none"
    /\ sent = <<>>
    /\ report = <<>>
    /\ total = NoTotal
    /\ msg = ""
    /\ procs = NoProcs

RoundTrip ==
    /\ Len(hist) < MaxOps
    /\ msg' = ""
    /\ \E now \in Nows :
       LET ld == load_timer_state(file) IN
       IF ld.err THEN Raise("roundtrip", now, TRUE, <<>>, "ValueError")
       ELSE Echo("roundtrip", update_timer_state(file, ld.timers), now, TRUE, <<>>)

NextRT == RoundTrip

SpecRT == InitRT /\ [][NextRT]_vars

\* ------------------------------------------- two invocations at once
\* Nothing locks plog.staging.  An invocation p of start or stop is two
\* steps, its load_timer_state and the rest of the command, and the steps of
\* two invocations interleave.  Invocations that overlap may read the same
\* time.
NowsC == clock..(clock + MaxStep)

\* the stores the invocations find: none, an Idle one, a Running one
InitC ==
    /\ file \in {NoFile,
                 [exists |-> TRUE, lines |-> StoreOf(<<1, 2>>)],
                 [exists |-> TRUE, lines |-> StoreOf(<<1, 2, 4>>)]}
    /\ clock = MaxT
    /\ hist = <<>>
    /\ before = file
    /\ cfg = TRUE
    /\ out = <<>>
    /\ exc = "none"
    /\ response = "none"
    /\ sent = <<>>
    /\ report = <<>>
    /\ total = NoTotal
    /\ msg = ""
    /\ procs = NoProcs

\* timers = load_timer_state() of invocation p of command c
Load(p, c) ==
    /\ Len(hist) < MaxInv
    /\ procs.pc[p] # "loaded"
    /\ LET ld == load_timer_state(file) IN
       /\ procs' = [procs EXCEPT !.pc[p] = IF ld.err THEN "done" ELSE "loaded",
                                 !.cmd[p] = c,
                                 !.timers[p] = ld.timers,
                                 !.seen[p] = file]
       /\ exc' = IF ld.err THEN "ValueError" ELSE "none"
    /\ hist' = Append(hist, c)
    /\ out' = <<>>
    /\ UNCHANGED <<file, clock, before, cfg, response, sent, report, total, msg>>

\* invocation p ends, having written f and echoed o at time now
Finish(p, f, now, o) ==
    /\ file' = f
    /\ clock' = now
    /\ before' = file
    /\ out' = o
    /\ exc' = "none"
    /\ procs' = [procs EXCEPT !.pc[p] = "done", !.last = p]
    /\ UNCHANGED <<hist, cfg, response, sent, report, total, msg>>

start_load(p) == Load(p, "start")

start_finish(p) ==
    /\ procs.pc[p] = "loaded"
    /\ procs.cmd[p] = "start"
    /\ \E now \in NowsC :
       IF start_running(procs.timers[p])
       THEN Finish(p, file, now, <<MsgAlreadyRunning>>)
       ELSE LET timer_start == now IN
            Finish(p, save_timer_state(file, timer_start), now, <<MsgStarted>>)

stop_load(p) == Load(p, "stop")

stop_finish(p) ==
    /\ procs.pc[p] = "loaded"
    /\ procs.cmd[p] = "stop"
    /\ \E now \in NowsC :
       IF stop_running(procs.timers[p])
       THEN LET timer_end == now IN
            Finish(p, update_timer_state(file, close_last(procs.timers[p], timer_end)),
                   now, <<MsgStopped>>)
       ELSE Finish(p, file, now, <<MsgNotRunning>>)

NextC ==
    \E p \in 1..2 : start_load(p) \/ start_finish(p) \/ stop_load(p) \/ stop_finish(p)

SpecC == InitC /\ [][NextC]_vars

\* ------------------------------------- a state file edited from outside
\* stores with a line load_timer_state does not accept: one field, three
\* fields, a blank line, a start that is no number, an end that is "None"
MalformedStores ==
    {[exists |-> TRUE, lines |-> ls] : ls \in {
        << <<Num(1)>> >>,
        << <<Num(1), Num(2)>>, <<Num(3), Num(4), Num(5)>> >>,
        << <<Num(1), Num(2)>>, <<EmptyText>> >>,
        << <<JunkText, EmptyText>> >>,
        << <<Num(1), NoneText>>, <<Num(2), Num(3)>> >> }}

InitM ==
    /\ file \in MalformedStores
    /\ clock = MaxT
    /\ hist = <<"edit">>
    /\ before = file
    /\ cfg = TRUE
    /\ out = <<>>
    /\ exc = "none"
    /\ response = "none"
    /\ sent = <<>>
    /\ report = <<>>
    /\ total = NoTotal
    /\ msg = ""
    /\ procs = NoProcs

SpecM == InitM /\ [][Next]_vars

\* ------------------------------------------------------------- vocabulary
op == IF hist = <<>> THEN "none" ELSE hist[Len(hist)]

IsOpenLine(line) == Len(line) = 2 /\ line[2].k = "empty"

\* the intervals of a store
Intervals(f) == load_timer_state(f).timers

Loads(f) == ~load_timer_state(f).err

Running(f) ==
    Loads(f) /\ Intervals(f) # <<>> /\ Intervals(f)[Len(Intervals(f))][2] = None

Idle(f) ==
    Loads(f) /\ (Intervals(f) = <<>> \/ Intervals(f)[Len(Intervals(f))][2] # None)

\* an interval of f starts and ends (at time t if it is open) on different dates
CrossesMidnightAt(f, t) ==
    \E i \in 1..Len(Intervals(f)) :
        LET s == Intervals(f)[i][1]
            e == IF Intervals(f)[i][2] = None THEN t ELSE Intervals(f)[i][2]
        IN s \div DayLen # e \div DayLen

\* the sink was called and did not answer 200
SinkFailed == response \in {"500", "transport"}

\* the history is start, stop, start, stop, ...: whole pairs and nothing else
IsPairs(h) ==
    /\ Len(h) % 2 = 0
    /\ \A i \in 1..Len(h) : h[i] = IF i % 2 = 1 THEN "start" ELSE "stop"

\* the command before the last one
prev_op == IF Len(hist) < 2 THEN "none" ELSE hist[Len(hist) - 1]

\* ------------------------------------------------------------------ claims

\* C1: when the sink call made by a push on a non-empty store fails (a non-200
\* answer or a transport failure), the store after the push is non-empty and
\* the same as before the push.
C1_FailedPushKeepsStore ==
    (op = "push" /\ SinkFailed /\ Loads(before) /\ Intervals(before) # <<>>)
        => (file = before /\ Intervals(file) # <<>>)

\* C2: at most one interval of the store is open, and an open interval is the
\* last one of the store.
C2_OnlyLastOpen ==
    \A i \in 1..Len(file.lines) : IsOpenLine(file.lines[i]) => i = Len(file.lines)

C2_Witness ==
    /\ Len(file.lines) >= 2
    /\ IsOpenLine(file.lines[Len(file.lines)])
    /\ op = "start"
    /\ file = before

\* C3: after N start/stop pairs from the empty store, the store holds exactly N
\* intervals, all closed, each with start < end.
C3_PairsGiveClosedIntervals ==
    IsPairs(hist) =>
        /\ Loads(file)
        /\ Len(Intervals(file)) = Len(hist) \div 2
        /\ \A i \in 1..Len(Intervals(file)) :
              /\ Intervals(file)[i][2] # None
              /\ Intervals(file)[i][1] < Intervals(file)[i][2]

C3_Witness == IsPairs(hist) /\ Len(hist) = 4 /\ Len(file.lines) = 2

\* C4: start while Running changes nothing in the store, appends no interval
\* and reports "already running".
C4_StartWhileRunningNoOp ==
    (op = "start" /\ Running(before)) =>
        /\ file = before
        /\ Len(file.lines) = Len(before.lines)
        /\ out = <<MsgAlreadyRunning>>
        /\ exc = "none"

C4_Witness == op = "start" /\ Running(before) /\ out = <<MsgAlreadyRunning>>

\* C5: stop while Idle changes nothing in the store (an absent store stays
\* absent) and reports "not running".
C5_StopWhileIdleNoOp ==
    (op = "stop" /\ Idle(before)) =>
        /\ file = before
        /\ out = <<MsgNotRunning>>
        /\ exc = "none"

C5_Witness ==
    /\ op = "stop"
    /\ Idle(before)
    /\ before.lines # <<>>
    /\ out = <<MsgNotRunning>>

\* C6 as claimed: a push on a store with an interval whose start and end (now,
\* for an open one) are on different dates fails with the cross-midnight
\* error, submits nothing and leaves the store as it was.
C6_CrossMidnightPushFails ==
    (op = "push" /\ Loads(before) /\ CrossesMidnightAt(before, clock)) =>
        /\ exc = "Exception"
        /\ response = "none"
        /\ file = before

\* C6 as amended: the same, for a push that finds PLOG_API_URL and
\* PLOG_API_TOKEN set.
C6_CrossMidnightPushFailsConfigured ==
    (op = "push" /\ cfg /\ Loads(before) /\ CrossesMidnightAt(before, clock)) =>
        /\ exc = "Exception"
        /\ response = "none"
        /\ sent = <<>>
        /\ file = before

C6_Witness ==
    /\ op = "push"
    /\ cfg
    /\ CrossesMidnightAt(before, clock)
    /\ exc = "Exception"
    /\ Len(before.lines) >= 2

\* C7: after a push whose sink submission succeeds the state file is removed:
\* load returns the empty sequence, the timer is Idle, and a status that
\* follows reports "no timer started".
C7_SuccessfulPushClears ==
    /\ []((op = "push" /\ response = "200") =>
            (~file.exists /\ Intervals(file) = <<>> /\ Idle(file)))
    /\ [][(op = "push" /\ response = "200" /\ hist' = Append(hist, "status"))
            => (out' = <<MsgNoTimer>> /\ exc' = "none")]_vars

C7_Witness ==
    /\ op = "push"
    /\ response = "200"
    /\ Len(before.lines) >= 2
    /\ ~file.exists
    /\ out = <<MsgSending, MsgResponse, MsgPushed>>

\* C8: reset succeeds from every state and leaves the store empty; a reset of
\* an already empty store raises nothing and leaves it empty, so that a second
\* reset changes nothing.
C8_ResetEmptiesAndIsIdempotent ==
    (op = "reset") =>
        /\ exc = "none"
        /\ out = <<MsgReset>>
        /\ ~file.exists
        /\ Intervals(file) = <<>>
        /\ (prev_op = "reset" => file = before)

C8_Witness ==
    /\ op = "reset"
    /\ prev_op = "reset"
    /\ Len(hist) >= 3
    /\ hist[Len(hist) - 2] = "start"

\* C9 as claimed: a push on an absent store reports "nothing to push", calls
\* no sink and leaves the store empty.
C9_PushOnEmptyReportsNothing ==
    (op = "push" /\ ~before.exists) =>
        /\ out = <<MsgNoTimers>>
        /\ response = "none"
        /\ file = before

\* C9 as amended: the same, for a push that finds PLOG_API_URL and
\* PLOG_API_TOKEN set.
C9_PushOnEmptyReportsNothingConfigured ==
    (op = "push" /\ cfg /\ ~before.exists) =>
        /\ out = <<MsgNoTimers>>
        /\ exc = "none"
        /\ response = "none"
        /\ sent = <<>>
        /\ file = before

C9_Witness == op = "push" /\ cfg /\ ~before.exists /\ out = <<MsgNoTimers>>

\* C10: overwrite(load()) leaves a well-formed store (closed lines, then at
\* most one open line) as it was, and load of the result equals load of the
\* original.
C10_RoundTripIsIdentity ==
    (op = "roundtrip" /\ before \in WellFormedStores) =>
        /\ file = before
        /\ load_timer_state(file) = load_timer_state(before)

\* the time worked in the intervals ivs, an open one counted up to time t
RECURSIVE SumWorked(_, _)
SumWorked(ivs, t) ==
    IF ivs = <<>> THEN 0
    ELSE (IF ivs[1][2] = None THEN t ELSE ivs[1][2]) - ivs[1][1]
         + SumWorked(Tail(ivs), t)

\* the last command was status --all on a store with intervals
StatusAllRan == op = "status" /\ out = <<MsgTimers, MsgTotal>>

\* C11: the total of status --all on a non-empty store is the sum of end - start
\* over its intervals, an open interval counting now - start; and for that
\* store the total does not decrease from one now to the next.
C11_TotalIsSumAndMonotone ==
    StatusAllRan =>
        LET ivs == Intervals(before) IN
        /\ total = SumWorked(ivs, clock)
        /\ \A n \in clock..(clock + MaxStep) :
              SumDurations(status_all(ivs, n)) <= SumDurations(status_all(ivs, n + 1))

C11_Witness ==
    /\ StatusAllRan
    /\ Running(before)
    /\ Len(before.lines) >= 2
    /\ total = SumWorked(Intervals(before), clock)
    /\ total > SumWorked(Intervals(before), clock - 1)

\* a push that builds its records: configuration present, intervals in the
\* store, none of them crossing midnight
PushBuilt ==
    /\ op = "push"
    /\ cfg
    /\ Loads(before)
    /\ Intervals(before) # <<>>
    /\ ~CrossesMidnightAt(before, clock)

\* C12: a push that builds its records submits one attendance per stored
\* interval, in store order, each with the push message as its comment and the
\* date, start time and end time of its own interval (now for an open end).
C12_OneRecordPerInterval ==
    PushBuilt =>
        /\ response # "none"
        /\ Len(sent) = Len(Intervals(before))
        /\ \A i \in 1..Len(sent) :
              LET s == Intervals(before)[i][1]
                  e == IF Intervals(before)[i][2] = None THEN clock
                       ELSE Intervals(before)[i][2]
              IN /\ sent[i].comment = msg
                 /\ sent[i].date * DayLen + sent[i].start_time = s
                 /\ sent[i].date * DayLen + sent[i].end_time = e

C12_Witness ==
    /\ PushBuilt
    /\ Running(before)
    /\ Len(sent) >= 2
    /\ msg = "worked"
    /\ sent[1].comment = "worked"

\* a line of f has not exactly two fields
WrongFieldCount(f) == f.exists /\ \E i \in 1..Len(f.lines) : Len(f.lines[i]) # 2

\* a line of f is not a numeric start with a numeric or empty end
Malformed(f) ==
    /\ f.exists
    /\ \E i \in 1..Len(f.lines) :
          \/ Len(f.lines[i]) # 2
          \/ f.lines[i][1].k # "num"
          \/ f.lines[i][2].k \notin {"num", "empty"}

\* C13: a push that misses PLOG_API_URL or PLOG_API_TOKEN reports it without
\* raising, calls no sink, does not read the store (a malformed store raises
\* nothing) and leaves the store as it was, whatever the store is.
C13_PushWithoutConfigTouchesNothing ==
    (op = "push" /\ ~cfg) =>
        /\ exc = "none"
        /\ out = <<MsgDefineEnv>>
        /\ response = "none"
        /\ sent = <<>>
        /\ file = before

C13_Witness ==
    /\ op = "push"
    /\ ~cfg
    /\ Malformed(before)
    /\ out = <<MsgDefineEnv>>

\* C14: on a store with a line that has not exactly two fields, start, stop,
\* status and a configured push end in a fatal error and leave the file as it
\* was.
C14_MalformedLineIsFatal ==
    (op \in {"start", "stop", "status", "push"} /\ cfg /\ WrongFieldCount(before)) =>
        /\ exc = "ValueError"
        /\ response = "none"
        /\ file = before

C14_Witness ==
    /\ op = "stop"
    /\ WrongFieldCount(before)
    /\ Len(before.lines) = 2
    /\ exc = "ValueError"
    /\ Len(hist) >= 3

\* C15: status, with and without --all, leaves the store as it was, whether
\* it is empty, Idle or Running; on an empty log it reports "no timer started"
\* and raises nothing.
C15_StatusIsReadOnly ==
    (op = "status") =>
        /\ file = before
        /\ exc = "none"
        /\ (Intervals(before) = <<>> => out = <<MsgNoTimer>>)
        /\ (Intervals(before) # <<>> => out \in {<<MsgLast>>, <<MsgTimers, MsgTotal>>})

C15_Witness ==
    /\ StatusAllRan
    /\ Running(before)
    /\ file = before
    /\ prev_op = "start"

\* C16: stop while Running leaves the timer Idle with the end of the last
\* interval set to now; the number of intervals, the start of the last one and
\* every earlier interval are as before.
C16_StopClosesOnlyLast ==
    (op = "stop" /\ Running(before)) =>
        /\ Idle(file)
        /\ Len(Intervals(file)) = Len(Intervals(before))
        /\ \A i \in 1..Len(Intervals(before)) :
              Intervals(file)[i] =
                  IF i = Len(Intervals(before))
                  THEN <<Intervals(before)[i][1], clock>>
                  ELSE Intervals(before)[i]

C16_Witness ==
    /\ op = "stop"
    /\ Running(before)
    /\ Len(before.lines) >= 2
    /\ out = <<MsgStopped>>

\* C17: start while Idle leaves the timer Running with exactly one interval
\* appended, starting now and open; the store as it was is a prefix of the new
\* one.
C17_StartAppendsOne ==
    (op = "start" /\ Idle(before)) =>
        /\ Running(file)
        /\ Len(file.lines) = Len(before.lines) + 1
        /\ Intervals(file)[Len(file.lines)] = <<clock, None>>
        /\ SubSeq(file.lines, 1, Len(before.lines)) = before.lines

C17_Witness ==
    /\ op = "start"
    /\ Idle(before)
    /\ Len(before.lines) >= 1
    /\ out = <<MsgStarted>>

\* C18: after a push on a store whose last interval is open and whose records
\* were built, the timer is not Running, whether the sink call succeeded or
\* failed.
C18_PushNeverLeavesRunning ==
    (PushBuilt /\ Running(before)) => ~Running(file)

\* C19: every persisted line has two fields, a numeric start and a numeric or
\* empty end, so that load raises no format error on a store the program
\* wrote.
C19_StoreStaysLoadable ==
    \A i \in 1..Len(file.lines) :
        /\ Len(file.lines[i]) = 2
        /\ file.lines[i][1].k = "num"
        /\ file.lines[i][2].k \in {"num", "empty"}

C19_Witness ==
    /\ op = "stop"
    /\ out = <<MsgStopped>>
    /\ Len(file.lines) >= 2
    /\ file.lines[Len(file.lines)][2].k = "num"

\* loaded timers that show an Idle timer, and ones that show a Running timer
IdleTimers(ts) == ts = <<>> \/ ts[Len(ts)][2] # None

RunningTimers(ts) == ts # <<>> /\ ts[Len(ts)][2] = None

\* the open lines of f
OpenLines(f) == {i \in 1..Len(f.lines) : IsOpenLine(f.lines[i])}

\* p and q ran start, both loaded the same Idle store, p appended and then q
\* appended
BothStartedFromIdle(p, q) ==
    /\ p # q
    /\ procs.last = q
    /\ procs.pc[p] = "done" /\ procs.pc[q] = "done"
    /\ procs.cmd[p] = "start" /\ procs.cmd[q] = "start"
    /\ procs.seen[p] = procs.seen[q]
    /\ IdleTimers(procs.timers[p]) /\ IdleTimers(procs.timers[q])
    /\ Len(before.lines) = Len(procs.seen[q].lines) + 1

\* q ran stop on a store it loaded Running, and before it wrote, the start p
\* appended an interval to that store
StopOverwroteAppend(p, q) ==
    /\ p # q
    /\ procs.last = q
    /\ procs.pc[p] = "done" /\ procs.pc[q] = "done"
    /\ procs.cmd[p] = "start" /\ procs.cmd[q] = "stop"
    /\ RunningTimers(procs.timers[q])
    /\ Len(before.lines) = Len(procs.seen[q].lines) + 1
    /\ SubSeq(before.lines, 1, Len(procs.seen[q].lines)) = procs.seen[q].lines
    /\ IsOpenLine(before.lines[Len(before.lines)])

\* C20: with two invocations interleaved at their load and write steps, two
\* starts that both load an Idle store before either appends leave a store
\* with two open intervals, and a stop that loaded before a concurrent start
\* appended overwrites the store without the appended interval.
C20_NoMutualExclusion ==
    \A p, q \in 1..2 :
        /\ BothStartedFromIdle(p, q) =>
              /\ Len(file.lines) = Len(procs.seen[q].lines) + 2
              /\ {Len(file.lines) - 1, Len(file.lines)} \subseteq OpenLines(file)
        /\ StopOverwroteAppend(p, q) =>
              /\ Len(file.lines) = Len(before.lines) - 1
              /\ \A i \in 1..Len(file.lines) :
                    file.lines[i] # before.lines[Len(before.lines)]

C20_Witness ==
    /\ BothStartedFromIdle(1, 2)
    /\ Cardinality(OpenLines(file)) = 2
    /\ Len(file.lines) = 3

C20_StopWitness == StopOverwroteAppend(1, 2) /\ Len(file.lines) = 2

====
